---- MODULE Spec2Model ----
(***************************************************************************)
(* Cut-vertex detection and meshification (src/algorithm.c).               *)
(*                                                                         *)
(* The model follows run_meshification: the random topology generator      *)
(* (tree backbone, then cross edges), the Tarjan analysis                  *)
(* find_biconnected_components / tarjan_dfs_bicomp, the planner            *)
(* add_optimal_redundant_edges, the second analysis and                    *)
(* compute_network_metrics.                                                *)
(*                                                                         *)
(* Scaling.  The shipped build has n_nodes in 10..1000 and                 *)
(* MAX_NEIGHBORS = 80.  n_nodes is a program variable and is drawn at Init *)
(* from 1..MaxNodes.  MAX_NEIGHBORS is a build parameter (#define, line    *)
(* 20); it is held in a variable that is fixed at Init and never changes,  *)
(* so that builds with a small neighbor capacity (where the capacity       *)
(* guards actually bind) and the scenario builds are all checked.          *)
(* MAX_NODES and MAX_BLOCKS only occur in the capacity guards of the edge  *)
(* stack and the block list and keep their shipped values.                 *)
(*                                                                         *)
(* Arrays are modelled by their live prefix: neighbors[u] is the sequence  *)
(* of slots 0..degree[u]-1 written so far, edge_stack is the sequence of   *)
(* entries below stack_top (stack_top = Len(edge_stack)), block_nodes is   *)
(* the sequence of the num_blocks blocks, each the sequence of its         *)
(* block_size[b] members, leaf_blocks the sequence of its num_leaf_blocks  *)
(* entries.  C indices are 0-based, sequence indices 1-based.              *)
(***************************************************************************)
EXTENDS Integers, Sequences, FiniteSets, TLC

\* Bounds of the model.
MaxNodes == 4
MaxNeighbors == 3

\* Program constants used in capacity guards.
MAX_NODES == 1000
MAX_BLOCKS == 1250

VARIABLES
  n_nodes,               \* static int n_nodes
  MAX_NEIGHBORS,         \* #define MAX_NEIGHBORS (fixed at Init)
  neighbors,             \* neighbors[u]: slots 0..degree[u]-1
  degree,                \* degree[u]
  exists_edge,           \* set of ordered pairs with exists_edge[u][v] = 1
  redundant_edge,        \* set of ordered pairs with redundant_edge[u][v] = 1
  original_edges,
  redundant_edges_added,
  visited, disc, low, parent_tarjan, time_dfs, is_cut,
  edge_stack,            \* entries 0..stack_top-1
  block_nodes,           \* blocks 0..num_blocks-1
  pop_log,               \* history of the pop loops of the last analysis
  leaf_blocks,           \* leaf_blocks[0..num_leaf_blocks-1]
  initial_cut_vertices,
  final_cut_vertices,
  pc,                    \* position in run_meshification
  i_gen,                 \* loop index i of the tree backbone loop
  attempts               \* local attempts of the cross-edge loop

vars == <<n_nodes, MAX_NEIGHBORS, neighbors, degree, exists_edge, redundant_edge,
          original_edges, redundant_edges_added, visited, disc, low,
          parent_tarjan, time_dfs, is_cut, edge_stack, block_nodes, pop_log,
          leaf_blocks, initial_cut_vertices, final_cut_vertices, pc, i_gen,
          attempts>>

graphVars == <<neighbors, degree, exists_edge, redundant_edge>>
tarjanVars == <<visited, disc, low, parent_tarjan, time_dfs, is_cut,
                edge_stack, block_nodes, pop_log>>
configVars == <<n_nodes, MAX_NEIGHBORS>>

Nodes == 0 .. (n_nodes - 1)

(***************************************************************************)
(* Graph store: the three places that insert an edge (lines 120-124,       *)
(* 137-145, 298-304) share the capacity guard and the insertion.           *)
(***************************************************************************)
\* Mutant of HasCapacity: the capacity guard is dropped.
HasCapacityUnchecked(deg, u, v) == TRUE

HasCapacity(deg, u, v) == deg[u] < MAX_NEIGHBORS /\ deg[v] < MAX_NEIGHBORS

\* neighbors[u][degree[u]++] = v; neighbors[v][degree[v]++] = u;
\* exists_edge[u][v] = exists_edge[v][u] = 1   (u # v at every call)
InsertEdge(g, u, v) ==
  [g EXCEPT !.neighbors = [@ EXCEPT ![u] = Append(@, v), ![v] = Append(@, u)],
            !.degree = [@ EXCEPT ![u] = @ + 1, ![v] = @ + 1],
            !.exists_edge = @ \cup {<<u, v>>, <<v, u>>}]

Graph == [neighbors |-> neighbors, degree |-> degree,
          exists_edge |-> exists_edge, redundant_edge |-> redundant_edge,
          added |-> 0]

\* int target_edges = (int)(n_nodes * connection_prob * 10), connection_prob = 0.15
target_edges == (n_nodes * 15) \div 10
max_attempts == target_edges * 3

(***************************************************************************)
(* init_arrays and the static initialisers.                                *)
(***************************************************************************)
InitWith(n, cap) ==
  /\ n_nodes = n
  /\ MAX_NEIGHBORS = cap
  /\ neighbors = [u \in 0 .. (n - 1) |-> <<>>]
  /\ degree = [u \in 0 .. (n - 1) |-> 0]
  /\ exists_edge = {}
  /\ redundant_edge = {}
  /\ original_edges = 0
  /\ redundant_edges_added = 0
  /\ visited = [u \in 0 .. (n - 1) |-> 0]
  /\ disc = [u \in 0 .. (n - 1) |-> 0]
  /\ low = [u \in 0 .. (n - 1) |-> 0]
  /\ parent_tarjan = [u \in 0 .. (n - 1) |-> 0]
  /\ time_dfs = 0
  /\ is_cut = [u \in 0 .. (n - 1) |-> 0]
  /\ edge_stack = <<>>
  /\ block_nodes = <<>>
  /\ pop_log = <<>>
  /\ leaf_blocks = <<>>
  /\ initial_cut_vertices = 0
  /\ final_cut_vertices = 0
  /\ pc = "tree"
  /\ i_gen = 1
  /\ attempts = 0

Init == \E n \in 1 .. MaxNodes : \E cap \in 1 .. MaxNeighbors : InitWith(n, cap)

(***************************************************************************)
(* generate_random_topology, step 1: one iteration of the backbone loop    *)
(* with parent = rand() % i.                                               *)
(***************************************************************************)
TreeStep(parent) ==
  /\ pc = "tree"
  /\ i_gen < n_nodes
  /\ parent \in 0 .. (i_gen - 1)
  /\ IF HasCapacity(degree, i_gen, parent)
       THEN LET g == InsertEdge(Graph, i_gen, parent)
            IN /\ neighbors' = g.neighbors
               /\ degree' = g.degree
               /\ exists_edge' = g.exists_edge
               /\ original_edges' = original_edges + 1
       ELSE UNCHANGED <<neighbors, degree, exists_edge, original_edges>>
  /\ i_gen' = i_gen + 1
  /\ UNCHANGED <<configVars, redundant_edge, redundant_edges_added, tarjanVars,
                 leaf_blocks, initial_cut_vertices, final_cut_vertices, pc,
                 attempts>>

\* The backbone loop ends; attempts = 0 before the cross-edge loop.
TreeDone ==
  /\ pc = "tree"
  /\ ~(i_gen < n_nodes)
  /\ pc' = "cross"
  /\ attempts' = 0
  /\ UNCHANGED <<configVars, graphVars, original_edges, redundant_edges_added,
                 tarjanVars, leaf_blocks, initial_cut_vertices,
                 final_cut_vertices, i_gen>>

(***************************************************************************)
(* Step 2: one iteration of the cross-edge loop with u = rand() % n_nodes, *)
(* v = rand() % n_nodes and roll = ((double)rand() / RAND_MAX < prob).     *)
(***************************************************************************)
CrossLoopCond == original_edges < target_edges /\ attempts < max_attempts

CrossStep(u, v, roll) ==
  /\ pc = "cross"
  /\ CrossLoopCond
  /\ IF u # v /\ <<u, v>> \notin exists_edge /\ HasCapacity(degree, u, v) /\ roll
       THEN LET g == InsertEdge(Graph, u, v)
            IN /\ neighbors' = g.neighbors
               /\ degree' = g.degree
               /\ exists_edge' = g.exists_edge
               /\ original_edges' = original_edges + 1
       ELSE UNCHANGED <<neighbors, degree, exists_edge, original_edges>>
  /\ attempts' = attempts + 1
  /\ UNCHANGED <<configVars, redundant_edge, redundant_edges_added, tarjanVars,
                 leaf_blocks, initial_cut_vertices, final_cut_vertices, pc,
                 i_gen>>

\* The cross-edge loop ends and generate_random_topology returns; its locals
\* go out of scope.
CrossDone ==
  /\ pc = "cross"
  /\ ~CrossLoopCond
  /\ pc' = "analyze"
  /\ attempts' = 0
  /\ i_gen' = 0
  /\ UNCHANGED <<configVars, graphVars, original_edges, redundant_edges_added,
                 tarjanVars, leaf_blocks, initial_cut_vertices,
                 final_cut_vertices>>

(***************************************************************************)
(* Tarjan analysis.  The analysis state is threaded through the recursion  *)
(* as a record with the fields of tarjanVars.                              *)
(***************************************************************************)
TarjanState ==
  [visited |-> visited, disc |-> disc, low |-> low,
   parent_tarjan |-> parent_tarjan, time_dfs |-> time_dfs, is_cut |-> is_cut,
   edge_stack |-> edge_stack, block_nodes |-> block_nodes, pop_log |-> pop_log]

\* Mutant of PushEdge: the edge is pushed with its endpoints swapped.
PushEdgeReversed(s, u, v) ==
  IF Len(s.edge_stack) < MAX_NODES * 10 - 1
    THEN [s EXCEPT !.edge_stack = Append(@, <<v, u>>)]
    ELSE s

\* if(stack_top < MAX_NODES * 10 - 1) { edge_stack[stack_top] = (u,v); stack_top++; }
PushEdge(s, u, v) ==
  IF Len(s.edge_stack) < MAX_NODES * 10 - 1
    THEN [s EXCEPT !.edge_stack = Append(@, <<u, v>>)]
    ELSE s

\* if(!in_block[x]) { in_block[x] = 1; block_nodes[b][block_size[b]++] = x; }
AddToBlock(block, x) ==
  IF \E k \in 1 .. Len(block) : block[k] = x THEN block ELSE Append(block, x)

\* The do-while pop loop of lines 186-199.  popped lists the edges in the
\* order they were popped.
RECURSIVE PopUntil(_, _, _, _)
PopUntil(stack, block, u, v) ==
  IF Len(stack) <= 0
    THEN [stack |-> stack, block |-> block, popped |-> <<>>]
    ELSE LET e == stack[Len(stack)]
             rest == SubSeq(stack, 1, Len(stack) - 1)
             b2 == AddToBlock(AddToBlock(block, e[1]), e[2])
         IN IF ~(e[1] = u /\ e[2] = v) /\ Len(rest) > 0
              THEN LET r == PopUntil(rest, b2, u, v)
                   IN [r EXCEPT !.popped = <<e>> \o @]
              ELSE [stack |-> rest, block |-> b2, popped |-> <<e>>]

\* The while(stack_top > 0) loop of lines 218-230.
RECURSIVE PopAll(_, _)
PopAll(stack, block) ==
  IF Len(stack) > 0
    THEN LET e == stack[Len(stack)]
         IN PopAll(SubSeq(stack, 1, Len(stack) - 1),
                   AddToBlock(AddToBlock(block, e[1]), e[2]))
    ELSE block

\* Mutant of ArticulationCond: the non-root test is strict.
ArticulationCondStrict(s, u, v, children) ==
  \/ (s.parent_tarjan[u] = -1 /\ children > 1)
  \/ (s.parent_tarjan[u] # -1 /\ s.low[v] > s.disc[u])

\* The articulation test of lines 178-179, after child v returned.
ArticulationCond(s, u, v, children) ==
  \/ (s.parent_tarjan[u] = -1 /\ children > 1)
  \/ (s.parent_tarjan[u] # -1 /\ s.low[v] >= s.disc[u])

\* Lines 180-202: flag u and carve a block out of the edge stack.
CloseBlock(s, u, v) ==
  LET s1 == [s EXCEPT !.is_cut[u] = 1]
  IN IF Len(s1.block_nodes) < MAX_BLOCKS
       THEN LET r == PopUntil(s1.edge_stack, <<>>, u, v)
            IN [s1 EXCEPT !.edge_stack = r.stack,
                          !.block_nodes = Append(@, r.block),
                          !.pop_log = Append(@,
                             [u |-> u, v |-> v,
                              present |-> \E k \in 1 .. Len(s1.edge_stack) :
                                             s1.edge_stack[k] = <<u, v>>,
                              popped |-> r.popped])]
       ELSE s1

\* Lines 215-232: the edges left on the stack when a root with at most one
\* child returns.
RootRemainder(s, u, children) ==
  IF /\ s.parent_tarjan[u] = -1
     /\ children <= 1
     /\ Len(s.edge_stack) > 0
     /\ Len(s.block_nodes) < MAX_BLOCKS
    THEN [s EXCEPT !.block_nodes = Append(@, PopAll(s.edge_stack, <<>>)),
                   !.edge_stack = <<>>]
    ELSE s

\* tarjan_dfs_bicomp(u); ScanNeighbors is its for loop from index i on
\* (0-based), with the local children.
RECURSIVE tarjan_dfs_bicomp(_, _), ScanNeighbors(_, _, _, _)
ScanNeighbors(s, u, i, children) ==
  IF ~(i < degree[u])
    THEN [st |-> s, children |-> children]
    ELSE LET v == neighbors[u][i + 1]
         IN IF s.visited[v] = 0
              THEN LET c1 == children + 1
                       s1 == PushEdge([s EXCEPT !.parent_tarjan[v] = u], u, v)
                       s2 == tarjan_dfs_bicomp(s1, v)
                       s3 == IF s2.low[v] < s2.low[u]
                               THEN [s2 EXCEPT !.low[u] = s2.low[v]]
                               ELSE s2
                       s4 == IF ArticulationCond(s3, u, v, c1)
                               THEN CloseBlock(s3, u, v)
                               ELSE s3
                   IN ScanNeighbors(s4, u, i + 1, c1)
              ELSE IF v # s.parent_tarjan[u] /\ s.disc[v] < s.disc[u]
                     THEN LET s1 == PushEdge(s, u, v)
                              s2 == IF s1.disc[v] < s1.low[u]
                                      THEN [s1 EXCEPT !.low[u] = s1.disc[v]]
                                      ELSE s1
                          IN ScanNeighbors(s2, u, i + 1, children)
                     ELSE ScanNeighbors(s, u, i + 1, children)

tarjan_dfs_bicomp(s, u) ==
  LET s1 == [s EXCEPT !.visited[u] = 1,
                      !.time_dfs = @ + 1,
                      !.disc[u] = s.time_dfs + 1,
                      !.low[u] = s.time_dfs + 1]
      r == ScanNeighbors(s1, u, 0, 0)
  IN RootRemainder(r.st, u, r.children)

\* Mutant of ResetTarjan: num_blocks and block_size are not reset.
ResetTarjanKeepBlocks(s) ==
  [visited |-> [x \in Nodes |-> 0],
   parent_tarjan |-> [x \in Nodes |-> -1],
   disc |-> [x \in Nodes |-> 0],
   low |-> [x \in Nodes |-> 0],
   is_cut |-> [x \in Nodes |-> 0],
   block_nodes |-> s.block_nodes,
   edge_stack |-> <<>>,
   time_dfs |-> 0,
   pop_log |-> <<>>]

\* The memsets and resets of lines 236-245.
ResetTarjan(s) ==
  [visited |-> [x \in Nodes |-> 0],
   parent_tarjan |-> [x \in Nodes |-> -1],
   disc |-> [x \in Nodes |-> 0],
   low |-> [x \in Nodes |-> 0],
   is_cut |-> [x \in Nodes |-> 0],
   block_nodes |-> <<>>,
   edge_stack |-> <<>>,
   time_dfs |-> 0,
   pop_log |-> <<>>]

\* The root loop of lines 247-252 from index i on.
RECURSIVE RootLoop(_, _)
RootLoop(s, i) ==
  IF ~(i < n_nodes)
    THEN s
    ELSE IF s.visited[i] = 0
           THEN RootLoop(tarjan_dfs_bicomp([s EXCEPT !.parent_tarjan[i] = -1], i),
                         i + 1)
           ELSE RootLoop(s, i + 1)

find_biconnected_components(s) == RootLoop(ResetTarjan(s), 0)

\* for(i...) if(is_cut[i]) count++   (lines 498, 318-320)
CountCut(cut) == Cardinality({x \in Nodes : cut[x] = 1})

SetTarjan(s) ==
  /\ visited' = s.visited
  /\ disc' = s.disc
  /\ low' = s.low
  /\ parent_tarjan' = s.parent_tarjan
  /\ time_dfs' = s.time_dfs
  /\ is_cut' = s.is_cut
  /\ edge_stack' = s.edge_stack
  /\ block_nodes' = s.block_nodes
  /\ pop_log' = s.pop_log

\* run_meshification lines 492-520: the initial analysis, the count of cut
\* vertices and the branch on it.
Analyze ==
  /\ pc = "analyze"
  /\ LET s == find_biconnected_components(TarjanState)
     IN /\ SetTarjan(s)
        /\ initial_cut_vertices' = CountCut(s.is_cut)
        /\ pc' = IF CountCut(s.is_cut) > 0 THEN "plan" ELSE "metrics"
  /\ UNCHANGED <<configVars, graphVars, original_edges, redundant_edges_added,
                 leaf_blocks, final_cut_vertices, i_gen, attempts>>

(***************************************************************************)
(* Block-cut classifier and planner.                                       *)
(***************************************************************************)
\* The cut_count of lines 262-266 for block index b (0-based).
CutCount(b) ==
  Cardinality({k \in 1 .. Len(block_nodes[b + 1]) :
                 is_cut[block_nodes[b + 1][k]] = 1})

\* Mutant of identify_leaf_blocks: a block with one cut vertex or more is a
\* leaf block.
RECURSIVE identify_leaf_blocks_any(_, _)
identify_leaf_blocks_any(b, leaves) ==
  IF ~(b < Len(block_nodes))
    THEN leaves
    ELSE identify_leaf_blocks_any(b + 1,
           IF CutCount(b) >= 1 THEN Append(leaves, b) ELSE leaves)

\* identify_leaf_blocks: the loop of lines 261-272 from block b on.
RECURSIVE identify_leaf_blocks(_, _)
identify_leaf_blocks(b, leaves) ==
  IF ~(b < Len(block_nodes))
    THEN leaves
    ELSE identify_leaf_blocks(b + 1,
           IF CutCount(b) = 1 THEN Append(leaves, b) ELSE leaves)

\* The scan of lines 276-279 from member index k on (0-based); -2 when no
\* member is a non-cut node.
RECURSIVE FirstNonCut(_, _)
FirstNonCut(block, k) ==
  IF ~(k < Len(block_nodes[block + 1]))
    THEN -2
    ELSE IF is_cut[block_nodes[block + 1][k + 1]] = 0
           THEN block_nodes[block + 1][k + 1]
           ELSE FirstNonCut(block, k + 1)

\* Mutant of find_non_cut_in_block: the first member is returned unscanned.
find_first_in_block(block) ==
  IF Len(block_nodes[block + 1]) > 0 THEN block_nodes[block + 1][1] ELSE -1

find_non_cut_in_block(block) ==
  IF FirstNonCut(block, 0) # -2
    THEN FirstNonCut(block, 0)
    ELSE IF Len(block_nodes[block + 1]) > 0
           THEN block_nodes[block + 1][1]
           ELSE -1

\* One iteration of the pairing loop (lines 292-306) on graph record g.
PairStep(g, leaves, i) ==
  LET block1 == leaves[i + 1]
      block2 == IF i + 1 < Len(leaves) THEN leaves[i + 2] ELSE leaves[1]
      node1 == find_non_cut_in_block(block1)
      node2 == find_non_cut_in_block(block2)
  IN IF /\ node1 # -1 /\ node2 # -1 /\ node1 # node2
        /\ <<node1, node2>> \notin g.exists_edge
        /\ HasCapacity(g.degree, node1, node2)
       THEN [InsertEdge(g, node1, node2) EXCEPT
               !.redundant_edge = @ \cup {<<node1, node2>>, <<node2, node1>>},
               !.added = @ + 1]
       ELSE g

\* for(int i=0; i<num_leaf_blocks; i+=2)
RECURSIVE PairLoop(_, _, _)
PairLoop(g, leaves, i) ==
  IF ~(i < Len(leaves))
    THEN g
    ELSE PairLoop(PairStep(g, leaves, i), leaves, i + 2)

\* add_optimal_redundant_edges (lines 283-310).
Plan ==
  /\ pc = "plan"
  /\ LET leaves == identify_leaf_blocks(0, <<>>)
         g == PairLoop(Graph, leaves, 0)
     IN /\ leaf_blocks' = leaves
        /\ neighbors' = g.neighbors
        /\ degree' = g.degree
        /\ exists_edge' = g.exists_edge
        /\ redundant_edge' = g.redundant_edge
        /\ redundant_edges_added' = g.added
  /\ pc' = "reanalyze"
  /\ UNCHANGED <<configVars, original_edges, tarjanVars, initial_cut_vertices,
                 final_cut_vertices, i_gen, attempts>>

\* The second find_biconnected_components of line 514.
Reanalyze ==
  /\ pc = "reanalyze"
  /\ SetTarjan(find_biconnected_components(TarjanState))
  /\ pc' = "metrics"
  /\ UNCHANGED <<configVars, graphVars, original_edges, redundant_edges_added,
                 leaf_blocks, initial_cut_vertices, final_cut_vertices, i_gen,
                 attempts>>

\* compute_network_metrics, lines 316-320.
Metrics ==
  /\ pc = "metrics"
  /\ initial_cut_vertices' = 0
  /\ final_cut_vertices' = CountCut(is_cut)
  /\ pc' = "done"
  /\ UNCHANGED <<configVars, graphVars, original_edges, redundant_edges_added,
                 tarjanVars, leaf_blocks, i_gen, attempts>>

Next ==
  \/ \E parent \in Nodes : TreeStep(parent)
  \/ TreeDone
  \/ \E u \in Nodes : \E v \in Nodes : \E roll \in BOOLEAN : CrossStep(u, v, roll)
  \/ CrossDone
  \/ Analyze
  \/ Plan
  \/ Reanalyze
  \/ Metrics

Spec == Init /\ [][Next]_vars

(***************************************************************************)
(* Scenario specifications.                                                *)
(*                                                                         *)
(* SpecPath: a build with 5 nodes and neighbor capacity 2, the full        *)
(* generator.  It reaches the path 0-1-2-3-4 and the disconnected graphs   *)
(* the backbone loop leaves when a parent is at capacity.                  *)
(*                                                                         *)
(* SpecStar: a build with 7 nodes and neighbor capacity 6, restricted to   *)
(* the runs of the generator in which every roll of line 141 fails, so the *)
(* graph is the tree backbone.  It reaches the star with center 0.         *)
(***************************************************************************)
InitPath == InitWith(5, 2)

SpecPath == InitPath /\ [][Next]_vars

InitStar == InitWith(7, 6)

NextStar ==
  \/ \E parent \in Nodes : TreeStep(parent)
  \/ TreeDone
  \/ \E u \in Nodes : \E v \in Nodes : CrossStep(u, v, FALSE)
  \/ CrossDone
  \/ Analyze
  \/ Plan
  \/ Reanalyze
  \/ Metrics

SpecStar == InitStar /\ [][NextStar]_vars

(***************************************************************************)
(* Vocabulary of the properties.                                           *)
(***************************************************************************)
\* is_cut and block_nodes are the analysis of the graph as it is now.
AnalysisFresh == pc \in {"plan", "metrics", "done"}

BlockSet(bn, b) == {bn[b][k] : k \in 1 .. Len(bn[b])}

CutSet == {x \in Nodes : is_cut[x] = 1}

\* The edges the generator made.
OriginalEdges == exists_edge \ redundant_edge

\* Brute-force reachability oracle: the nodes reachable from S over the
\* edge set E without entering a node of removed.
RECURSIVE ReachFrom(_, _, _)
ReachFrom(S, E, removed) ==
  LET T == S \cup {y \in Nodes \ removed : \E x \in S : <<x, y>> \in E}
  IN IF T = S THEN S ELSE ReachFrom(T, E, removed)

ConnectedOver(E) == ReachFrom({0}, E, {}) = Nodes

\* Removing v and its incident edges leaves the remaining nodes disconnected.
Disconnects(v) ==
  LET rest == Nodes \ {v}
  IN \E x \in rest : ReachFrom({x}, exists_edge, {v}) # rest

\* x is v or a descendant of v in the DFS tree recorded in parent_tarjan.
RECURSIVE InSubtree(_, _)
InSubtree(x, v) ==
  IF x = v THEN TRUE
  ELSE IF parent_tarjan[x] = -1 THEN FALSE
  ELSE InSubtree(parent_tarjan[x], v)

StarEdges == {<<0, k>> : k \in 1 .. 6} \cup {<<k, 0>> : k \in 1 .. 6}

PathEdges == {<<k, k + 1>> : k \in 0 .. 3} \cup {<<k + 1, k>> : k \in 0 .. 3}

LeafBlockSets(leaves) ==
  {BlockSet(block_nodes, leaves[k] + 1) : k \in 1 .. Len(leaves)}

(***************************************************************************)
(* C1  Partition: after find_biconnected_components, every edge {u,v} of   *)
(* the graph has both endpoints together in exactly one block.             *)
(* Violated: a root with two or more DFS children never gets the block of  *)
(* its first child.                                                        *)
(***************************************************************************)
C1_Partition ==
  AnalysisFresh =>
    \A e \in exists_edge :
      Cardinality({b \in 1 .. Len(block_nodes) :
                     /\ e[1] \in BlockSet(block_nodes, b)
                     /\ e[2] \in BlockSet(block_nodes, b)}) = 1

(***************************************************************************)
(* C2  Cut-vertex correctness: on a connected graph, after the analysis,   *)
(* is_cut[v] is set iff removing v disconnects the remaining nodes         *)
(* (brute-force oracle), for every neighbor insertion order the generator  *)
(* and the planner produce.                                                *)
(***************************************************************************)
C2_CutVertexCorrect ==
  (AnalysisFresh /\ ConnectedOver(exists_edge)) =>
    \A v \in Nodes : (is_cut[v] = 1) <=> Disconnects(v)

\* A connected graph in which the root and a non-root node are both flagged.
C2_Witness ==
  /\ pc = "plan"
  /\ ConnectedOver(exists_edge)
  /\ is_cut[0] = 1
  /\ \E v \in Nodes \ {0} : is_cut[v] = 1
  /\ \E v \in Nodes : is_cut[v] = 0

(***************************************************************************)
(* C3  Meshification eliminates all cut vertices: on a connected graph on  *)
(* which the first analysis found a cut vertex, the analysis after the     *)
(* planner reports none.                                                   *)
(* Violated: on the path 1-0-2 the block {0,1} is lost (C1), one leaf      *)
(* block remains, it is paired with itself and no edge is added.           *)
(***************************************************************************)
C3_MeshEliminatesAll ==
  (pc = "metrics" /\ initial_cut_vertices > 0 /\ ConnectedOver(OriginalEdges)) =>
    CountCut(is_cut) = 0

(***************************************************************************)
(* C4  Degree bound: in every reachable state degree[u] <= MAX_NEIGHBORS   *)
(* for every node, and no neighbor slot at or beyond the capacity has been *)
(* written.                                                                *)
(***************************************************************************)
C4_DegreeBound ==
  \A u \in Nodes :
    /\ degree[u] <= MAX_NEIGHBORS
    /\ Len(neighbors[u]) <= MAX_NEIGHBORS

\* The capacity binds (it is below n_nodes - 1), a node is at capacity, and
\* the planner has inserted an edge.
C4_Witness ==
  /\ pc = "reanalyze"
  /\ redundant_edges_added > 0
  /\ MAX_NEIGHBORS < n_nodes - 1
  /\ \E u \in Nodes : degree[u] = MAX_NEIGHBORS

(***************************************************************************)
(* C5  Determinism and full reset: a second find_biconnected_components on *)
(* an unmodified graph (the planner added no edge), started from the       *)
(* edge stack and block data the first run left, yields the same cut       *)
(* flags, the same number of blocks and the same blocks as sets.           *)
(***************************************************************************)
C5_Determinism ==
  [][(pc = "reanalyze" /\ redundant_edges_added = 0) =>
       /\ is_cut' = is_cut
       /\ Len(block_nodes') = Len(block_nodes)
       /\ \A b \in 1 .. Len(block_nodes) :
            BlockSet(block_nodes', b) = BlockSet(block_nodes, b)]_vars

\* The second analysis ran on an unmodified graph, after a first run that
\* left entries on the edge stack and blocks in the block arrays.
C5_Witness ==
  /\ pc = "metrics"
  /\ initial_cut_vertices > 0
  /\ redundant_edges_added = 0
  /\ Len(edge_stack) > 0
  /\ Len(block_nodes) > 0

(***************************************************************************)
(* C6  Star scenario: on the star with center 0 and leaves 1..6 the        *)
(* analysis flags only node 0 and yields 6 blocks, one per bridge, all 6   *)
(* leaf blocks; the planner adds exactly 3 edges, each paired leaf's       *)
(* degree increases by exactly 1 and the center's degree is unchanged.     *)
(* Violated: the block of the first child of the root is lost (C1).        *)
(***************************************************************************)
C6_StarScenario ==
  /\ (pc = "plan" /\ exists_edge = StarEdges) =>
       /\ CutSet = {0}
       /\ Len(block_nodes) = 6
       /\ {BlockSet(block_nodes, b) : b \in 1 .. Len(block_nodes)}
            = {{0, k} : k \in 1 .. 6}
       /\ Len(identify_leaf_blocks(0, <<>>)) = 6
  /\ (pc = "reanalyze" /\ OriginalEdges = StarEdges) =>
       /\ Len(leaf_blocks) = 6
       /\ redundant_edges_added = 3
       /\ degree[0] = 6
       /\ \A k \in 1 .. 6 :
            (\E j \in Nodes : <<k, j>> \in redundant_edge) => degree[k] = 2

(***************************************************************************)
(* C7  Path scenario.  As claimed: on the path 0-1-2-3-4 the analysis      *)
(* flags exactly {1,2,3} and yields three blocks, each a single edge;      *)
(* exactly the blocks {0,1} and {3,4} are leaf blocks; the planner adds    *)
(* exactly one edge, 0-4; the re-analysis reports no cut vertex.           *)
(***************************************************************************)
PathScenario(nblocks) ==
  /\ (pc = "plan" /\ exists_edge = PathEdges) =>
       /\ CutSet = {1, 2, 3}
       /\ Len(block_nodes) = nblocks
       /\ \A b \in 1 .. Len(block_nodes) :
            /\ Len(block_nodes[b]) = 2
            /\ <<block_nodes[b][1], block_nodes[b][2]>> \in PathEdges
       /\ LeafBlockSets(identify_leaf_blocks(0, <<>>)) = {{0, 1}, {3, 4}}
       /\ Len(identify_leaf_blocks(0, <<>>)) = 2
  /\ (pc = "reanalyze" /\ OriginalEdges = PathEdges) =>
       /\ redundant_edges_added = 1
       /\ redundant_edge = {<<0, 4>>, <<4, 0>>}
  /\ (pc = "metrics" /\ OriginalEdges = PathEdges) =>
       CountCut(is_cut) = 0

\* C7 as claimed (three blocks).
C7_PathScenario_Original == PathScenario(3)

\* C7 as amended: the path 0-1-2-3-4 has four edges, so the analysis yields four
\* blocks, each a single edge; the rest of the scenario is as claimed.
C7_PathScenario == PathScenario(4)

C7_Witness ==
  /\ pc = "metrics"
  /\ OriginalEdges = PathEdges
  /\ redundant_edges_added = 1
  /\ Len(leaf_blocks) = 2

(***************************************************************************)
(* C8  The planner never makes things worse: the number of cut vertices    *)
(* reported by the analysis after add_optimal_redundant_edges is never     *)
(* greater than the number reported by the analysis before it, on          *)
(* connected and on disconnected graphs.                                   *)
(* Violated on 1-0-2 + 3-4: the edge (0,1) left on the stack (C1) is       *)
(* popped into the block of the component {3,4}, which then counts as a    *)
(* leaf block and is linked to node 2.                                     *)
(***************************************************************************)
C8_NeverWorse ==
  (pc = "metrics" /\ initial_cut_vertices > 0) =>
    CountCut(is_cut) <= initial_cut_vertices

(***************************************************************************)
(* C9  Edge-stack pop protocol: whenever the articulation condition fires  *)
(* for u and its DFS child v, the tree edge (u,v) is on the edge stack,    *)
(* the pop loop ends with (u,v) as the last edge popped (never on an empty *)
(* stack before it), and every other edge popped was pushed from a node of *)
(* the DFS subtree of v and ends in that subtree or at u.                  *)
(***************************************************************************)
C9_PopProtocol ==
  \A k \in 1 .. Len(pop_log) :
    LET p == pop_log[k]
        n == Len(p.popped)
    IN /\ p.present
       /\ n >= 1
       /\ p.popped[n] = <<p.u, p.v>>
       /\ \A j \in 1 .. (n - 1) :
            /\ p.popped[j] # <<p.u, p.v>>
            /\ InSubtree(p.popped[j][1], p.v)
            /\ (InSubtree(p.popped[j][2], p.v) \/ p.popped[j][2] = p.u)

\* A pop that closed a cycle (three edges or more, with a back edge) and
\* left older edges on the stack.
C9_Witness ==
  /\ AnalysisFresh
  /\ \E k \in 1 .. Len(pop_log) :
       /\ Len(pop_log[k].popped) >= 3
       /\ pop_log[k].u # 0

(***************************************************************************)
(* C10  The planner never attaches an edge to a cut vertex: for every leaf *)
(* block it processes, find_non_cut_in_block returns a node that is not    *)
(* flagged, and the degree and neighbor list of every flagged node are the *)
(* same after the planner as before it.                                    *)
(***************************************************************************)
C10_NoEdgeAtCutVertex ==
  [][pc = "plan" =>
       /\ \A k \in 1 .. Len(leaf_blocks') :
            /\ find_non_cut_in_block(leaf_blocks'[k]) \in Nodes
            /\ is_cut[find_non_cut_in_block(leaf_blocks'[k])] = 0
       /\ \A u \in Nodes :
            is_cut[u] = 1 =>
              (degree'[u] = degree[u] /\ neighbors'[u] = neighbors[u])]_vars

\* The planner added an edge for a leaf block whose first member is a cut
\* vertex, so the scan for a non-cut member decided the endpoint.
C10_Witness ==
  /\ pc = "reanalyze"
  /\ redundant_edges_added > 0
  /\ \E k \in 1 .. Len(leaf_blocks) :
       /\ is_cut[block_nodes[leaf_blocks[k] + 1][1]] = 1
       /\ \E j \in Nodes :
            <<find_non_cut_in_block(leaf_blocks[k]), j>> \in redundant_edge

(***************************************************************************)
(* C11  Reported before/after counts are faithful: when run_meshification  *)
(* reaches print_statistics, initial_cut_vertices is the number of cut     *)
(* vertices the first analysis found (the count of lines 497-498, held in  *)
(* initial_cut_vertices until compute_network_metrics runs) and            *)
(* final_cut_vertices is the number found by the last analysis.            *)
(* Violated: compute_network_metrics sets initial_cut_vertices = 0 (line   *)
(* 316) and never recomputes it.                                           *)
(***************************************************************************)
C11_CountsFaithful ==
  [][pc = "metrics" =>
       /\ pc' = "done"
       /\ initial_cut_vertices' = initial_cut_vertices
       /\ final_cut_vertices' = CountCut(is_cut)]_vars

====
